---- MODULE Spec2Model ----
(***************************************************************************)
(* SceneValidator (src/tools/scene_validator/scene_validator.py).          *)
(*                                                                         *)
(* JSON documents are modelled as tagged values: a JSON object is          *)
(* Dict(f) with f a function from key names to values, any JSON value that *)
(* supports neither key membership nor item assignment (number, boolean,   *)
(* null) is Scalar.  Lists of allowed values are sequences of strings      *)
(* (numbers are written as their decimal text), flags are booleans.        *)
(* Messages (Python f-strings) are records of the fixed text and the       *)
(* values interpolated into it, in order.                                  *)
(***************************************************************************)
EXTENDS Naturals, Sequences, FiniteSets, TLC

VARIABLES
    pc,                 \* "new" before __init__, "ready" after, "failed" if it raised
    api_key,            \* constructor argument / GEMINI_API_KEY: TRUE when one is available
    service_account_path, \* constructor argument: TRUE when given
    rules_path,         \* constructor argument: the rules source (see RuleSource)
    rules,              \* self.rules
    storage_client,     \* self.storage_client is not None
    op,                 \* the call whose frame the variables below hold, "idle" if none
    scene_arg,          \* the scene document as the caller passed it
    scene_data,         \* the scene document as the call left it
    response,           \* what the collaborator did in this call (NoResponse: not called)
    calls,              \* number of generate_content calls made in this call
    result,             \* the ValidationResult returned (NoResult: none)
    report              \* the text generate_report returned (NoReport: none)

vars == <<pc, api_key, service_account_path, rules_path, rules, storage_client,
          op, scene_arg, scene_data, response, calls, result, report>>

----------------------------------------------------------------------------
(* Bounds of the model *)

\* A scene lacks at most this many of the required fields.
MaxMissing == 2
\* A rules file defines at most this many sections (specification SpecLoad).
MaxSections == 2
\* A section of a rules file defines at most this many keys (specification SpecLoad).
MaxKeys == 1

----------------------------------------------------------------------------
(* JSON values *)

Dict(f) == [t |-> "dict", v |-> f]
Scalar == [t |-> "scalar"]
Absent == [t |-> "absent"]

IsDict(j) == j.t = "dict"

\* x in list
InList(x, list) == \E i \in DOMAIN list : list[i] = x

\* The sequences without repetition that enumerate the set S in the order of
\* the sequence `order` (a list comprehension over `order`).
RECURSIVE Filter(_, _)
Filter(order, S) ==
    IF order = <<>> THEN <<>>
    ELSE (IF Head(order) \in S THEN <<Head(order)>> ELSE <<>>) \o Filter(Tail(order), S)

----------------------------------------------------------------------------
(* _load_rules *)

default_rules ==
    [technical |-> Dict([resolution |-> <<"1920x1080", "3840x2160", "4096x2160">>,
                         frameRate |-> <<"24", "25", "30", "60">>,
                         colorSpace |-> <<"Rec.709", "Rec.2020", "DCI-P3">>,
                         audioChannels |-> <<"2", "5.1", "7.1">>,
                         audioSampleRate |-> <<"48000", "96000">>]),
     composition |-> Dict([enforceRuleOfThirds |-> TRUE,
                           enforceHeadroom |-> TRUE,
                           enforceLeadingSpace |-> TRUE]),
     continuity |-> Dict([checkProps |-> TRUE,
                          checkWardrobe |-> TRUE,
                          checkLighting |-> TRUE,
                          checkTimeOfDay |-> TRUE])]

\* Iteration order of `for section in default_rules` (dict insertion order).
SectionOrder == <<"technical", "composition", "continuity">>

\* FillKeys with the default value winning over the section's.
FillKeysDefaultsWin(section, defaults) ==
    [k \in DOMAIN section \cup DOMAIN defaults |->
        IF k \in DOMAIN defaults THEN defaults[k] ELSE section[k]]

\* Lines 115-117: every default key the section lacks is filled in; the keys
\* the section has keep their values.
FillKeys(section, defaults) ==
    [k \in DOMAIN section \cup DOMAIN defaults |->
        IF k \in DOMAIN section THEN section[k] ELSE defaults[k]]

\* One iteration of the loop of lines 113-119 on custom_rules.  A section of
\* the file that is no mapping raises (TypeError) at its first default key.
MergeSection(custom_rules, section) ==
    IF section \in DOMAIN custom_rules
      THEN IF IsDict(custom_rules[section])
             THEN [raised |-> FALSE,
                   rules |-> [custom_rules EXCEPT ![section] =
                                Dict(FillKeys(@.v, default_rules[section].v))]]
             ELSE [raised |-> TRUE, rules |-> custom_rules]
      ELSE [raised |-> FALSE,
            rules |-> [s \in DOMAIN custom_rules \cup {section} |->
                         IF s = section THEN default_rules[section] ELSE custom_rules[s]]]

\* The loop of lines 113-119 from its i-th iteration on: it stops at the
\* first iteration that raises, leaving custom_rules as merged so far.
RECURSIVE MergeFrom(_, _)
MergeFrom(custom_rules, i) ==
    IF i > Len(SectionOrder) THEN [raised |-> FALSE, rules |-> custom_rules]
    ELSE LET step == MergeSection(custom_rules, SectionOrder[i])
         IN IF step.raised THEN step ELSE MergeFrom(step.rules, i + 1)

\* OnLoadFailure returning custom_rules as far as it was merged.
OnLoadFailureReturningPartial(partial) == partial

\* What the except clause of lines 123-126 returns after the try block raised
\* with custom_rules merged as far as `partial`.
OnLoadFailure(partial) == default_rules

\* A rules source: no path, a path that cannot be opened or parsed, or a
\* parsed JSON document.
NoRulesPath == [kind |-> "none"]
UnreadableRules == [kind |-> "unreadable"]
RulesFile(doc) == [kind |-> "json", doc |-> doc]

_load_rules(path) ==
    IF path.kind = "none" THEN default_rules
    ELSE IF path.kind = "unreadable" THEN OnLoadFailure(<<>>)
    ELSE IF ~IsDict(path.doc) THEN OnLoadFailure(<<>>)
    ELSE LET merged == MergeFrom(path.doc.v, 1)
         IN IF merged.raised THEN OnLoadFailure(merged.rules) ELSE merged.rules

----------------------------------------------------------------------------
(* Rules sources *)

\* The value a rules file gives a key of the technical section: a list of
\* allowed values other than the default one.
CustomList(key) ==
    CASE key = "resolution" -> <<"720x480">>
      [] key = "frameRate" -> <<"12">>
      [] key = "colorSpace" -> <<"sRGB">>
      [] key = "audioChannels" -> <<"1">>
      [] key = "audioSampleRate" -> <<"44100">>
      [] OTHER -> <<"16:9">>

\* The keys a rules file may define in a section: the default keys and one
\* key the defaults do not have.
FileKeys(section) ==
    CASE section = "technical" -> DOMAIN default_rules.technical.v \cup {"aspectRatio"}
      [] section = "composition" -> DOMAIN default_rules.composition.v \cup {"enforceSymmetry"}
      [] section = "continuity" -> DOMAIN default_rules.continuity.v \cup {"checkMakeup"}
      [] OTHER -> {"author"}

\* The mappings a rules file may give a section, with at most n keys.
FileSections(section, n) ==
    LET keysets == {K \in SUBSET FileKeys(section) : Cardinality(K) <= n}
    IN IF section \in {"composition", "continuity"}
         THEN UNION {[K -> BOOLEAN] : K \in keysets}
         ELSE {[k \in K |-> CustomList(k)] : K \in keysets}

\* What a rules file may hold under a section name: nothing, a value that is
\* no mapping, or a mapping.
FileSectionValues(section, n) ==
    {Absent, Scalar} \cup {Dict(f) : f \in FileSections(section, n)}

\* The JSON object with the given values under the four section names
\* ("project" is a section the defaults do not have).
RulesDoc(technical, composition, continuity, project) ==
    LET val == [s \in {"technical", "composition", "continuity", "project"} |->
                  CASE s = "technical" -> technical
                    [] s = "composition" -> composition
                    [] s = "continuity" -> continuity
                    [] OTHER -> project]
    IN Dict([s \in {x \in DOMAIN val : val[x] # Absent} |-> val[s]])

\* The JSON objects a rules file of specification SpecLoad may hold.
RulesDocs ==
    {d \in {RulesDoc(t, c, n, p) :
              t \in FileSectionValues("technical", MaxKeys),
              c \in FileSectionValues("composition", MaxKeys),
              n \in FileSectionValues("continuity", MaxKeys),
              p \in FileSectionValues("project", MaxKeys)} :
        Cardinality(DOMAIN d.v) <= MaxSections}

\* The rules sources of specification SpecLoad.
RuleSources ==
    {NoRulesPath, UnreadableRules, RulesFile(Scalar)} \cup {RulesFile(d) : d \in RulesDocs}

\* Sections of the rules files the validators of specification Spec are built from.
CustomTechnical ==
    Dict([k \in {"resolution", "frameRate", "colorSpace"} |-> CustomList(k)])
AllCustomTechnical ==
    Dict([k \in DOMAIN default_rules.technical.v |-> CustomList(k)])
NoRuleOfThirds == Dict([enforceRuleOfThirds |-> FALSE])
NoHeadroom == Dict([enforceHeadroom |-> FALSE, enforceLeadingSpace |-> FALSE])
NoCheckProps == Dict([checkProps |-> FALSE])
OnlyCheckProps ==
    Dict([checkWardrobe |-> FALSE, checkLighting |-> FALSE, checkTimeOfDay |-> FALSE])

\* The rules sources of specification Spec.
ValidatorRuleSources ==
    {NoRulesPath,
     RulesFile(RulesDoc(AllCustomTechnical, Absent, Absent, Absent)),
     RulesFile(RulesDoc(Absent, NoRuleOfThirds, Absent, Absent)),
     RulesFile(RulesDoc(Absent, NoHeadroom, OnlyCheckProps, Absent)),
     RulesFile(RulesDoc(Absent, Absent, NoCheckProps, Absent)),
     RulesFile(RulesDoc(CustomTechnical, NoRuleOfThirds, NoCheckProps, Scalar))}

----------------------------------------------------------------------------
(* Scene documents: Python dicts, modelled as functions from the keys present *)

required_fields == <<"sceneName", "sceneNumber", "location", "timeOfDay", "characters", "props">>

RequiredKeys == {required_fields[i] : i \in DOMAIN required_fields}

\* The checked technical fields of a scene are absent ("-"), hold the first
\* value of the default list ("std") or the value of the custom list ("alt").
SceneValue(key, choice) ==
    IF choice = "std" THEN default_rules.technical.v[key][1] ELSE CustomList(key)[1]

\* A technical block; with audio, it also sets the two audio fields to values
\* that are in no list of allowed values.
TechnicalBlock(r, f, c, audio) ==
    LET choice == [resolution |-> r, frameRate |-> f, colorSpace |-> c]
        checked == {k \in DOMAIN choice : choice[k] # "-"}
        extra == IF audio THEN {"audioChannels", "audioSampleRate"} ELSE {}
    IN [k \in checked \cup extra |->
          IF k \in checked THEN SceneValue(k, choice[k])
          ELSE IF k = "audioChannels" THEN "9" ELSE "22050"]

TechnicalOptions ==
    {Absent} \cup
    {Dict(TechnicalBlock(r, f, c, a)) :
        r \in {"-", "std", "alt"}, f \in {"-", "std", "alt"}, c \in {"-", "std", "alt"},
        a \in BOOLEAN}

\* A composition block: absent, without the ruleOfThirds flag, or with it.
CompositionOptions ==
    {Absent, Dict([headroom |-> FALSE]),
     Dict([ruleOfThirds |-> TRUE]), Dict([ruleOfThirds |-> FALSE])}

\* previousScenes: absent, empty, or one previous scene.
PreviousOptions ==
    {Absent, Dict(<<>>), Dict(<<[sceneName |-> "S0", props |-> "lamp"]>>)}

SceneDoc(present, technical, composition, previous) ==
    LET optional == [technical |-> technical, composition |-> composition,
                     previousScenes |-> previous]
        keys == present \cup {k \in DOMAIN optional : optional[k] # Absent}
    IN [k \in keys |-> IF k \in present THEN "x" ELSE optional[k].v]

Scenes ==
    {SceneDoc(RequiredKeys \ missing, t, c, p) :
        missing \in {m \in SUBSET RequiredKeys : Cardinality(m) <= MaxMissing},
        t \in TechnicalOptions, c \in CompositionOptions, p \in PreviousOptions}

----------------------------------------------------------------------------
(* The text-generation collaborator *)

NoResponse == [kind |-> "none"]

\* A field of the JSON object the collaborator answers with: absent, falsy
\* ([], null, false, 0), a non-empty list of strings, or a truthy value that
\* list.extend cannot iterate (a number, true).
FieldValues(texts) ==
    {[t |-> "absent"], [t |-> "falsy"], [t |-> "noniter"], [t |-> "list", v |-> texts]}

\* What generate_content and json.loads do: the call raises; the text is no
\* JSON; the JSON value supports no `in` (number, boolean, null); the JSON
\* value is a list that holds neither field name; the JSON value is an object.
Outcomes ==
    {[kind |-> "raise"], [kind |-> "unparseable"], [kind |-> "scalar"], [kind |-> "array"]}
    \cup {[kind |-> "object", continuityErrors |-> e, continuityWarnings |-> w] :
            e \in FieldValues(<<"prop moved", "lamp missing">>),
            w \in FieldValues(<<"check wardrobe">>)}

----------------------------------------------------------------------------
(* validate_scene_json *)

\* An f-string: its fixed text and the values interpolated into it.
Msg(text, args) == [text |-> text, args |-> args]

\* The strings of a list the collaborator reported, as messages.
Reported(texts) == [i \in DOMAIN texts |-> Msg(texts[i], <<>>)]

GenericWarning == Msg("Could not perform automated continuity check", <<>>)

\* missing_fields with "props" left out of the required fields.
MissingFieldsIgnoringProps(scene) ==
    Filter(required_fields, (RequiredKeys \ {"props"}) \ DOMAIN scene)

\* Line 140.
missing_fields(scene) == Filter(required_fields, RequiredKeys \ DOMAIN scene)

\* Lines 143-147.
MissingResult(missing) ==
    [valid |-> FALSE,
     errors |-> <<Msg("Missing required fields", missing)>>,
     warnings |-> <<>>]

\* One of the three if statements of lines 157-164.
FieldError(tech, tech_rules, key, text) ==
    IF key \in DOMAIN tech /\ ~InList(tech[key], tech_rules[key])
      THEN <<Msg(text, <<tech[key]>> \o tech_rules[key])>>
      ELSE <<>>

\* TechnicalErrors checking audioChannels as well.
TechnicalErrorsWithAudio(scene, r) ==
    IF "technical" \in DOMAIN scene
      THEN LET tech == scene["technical"]
               tech_rules == r["technical"].v
           IN FieldError(tech, tech_rules, "resolution", "Invalid resolution")
              \o FieldError(tech, tech_rules, "frameRate", "Invalid frame rate")
              \o FieldError(tech, tech_rules, "colorSpace", "Invalid color space")
              \o FieldError(tech, tech_rules, "audioChannels", "Invalid audio channels")
      ELSE <<>>

\* Lines 152-164: the errors of the technical check.
TechnicalErrors(scene, r) ==
    IF "technical" \in DOMAIN scene
      THEN LET tech == scene["technical"]
               tech_rules == r["technical"].v
           IN FieldError(tech, tech_rules, "resolution", "Invalid resolution")
              \o FieldError(tech, tech_rules, "frameRate", "Invalid frame rate")
              \o FieldError(tech, tech_rules, "colorSpace", "Invalid color space")
      ELSE <<>>

RuleOfThirdsWarning == Msg("Scene does not follow rule of thirds", <<>>)

\* CompositionWarnings warning also when the block does not set the flag
\* (not comp.get("ruleOfThirds")).
CompositionWarningsUnlessSet(scene, r) ==
    IF "composition" \in DOMAIN scene /\ r["composition"].v["enforceRuleOfThirds"]
      THEN LET comp == scene["composition"]
           IN IF "ruleOfThirds" \notin DOMAIN comp \/ ~comp["ruleOfThirds"]
                THEN <<RuleOfThirdsWarning>>
                ELSE <<>>
      ELSE <<>>

\* Lines 166-170: the warnings of the composition check.
CompositionWarnings(scene, r) ==
    IF "composition" \in DOMAIN scene /\ r["composition"].v["enforceRuleOfThirds"]
      THEN LET comp == scene["composition"]
           IN IF "ruleOfThirds" \in DOMAIN comp /\ ~comp["ruleOfThirds"]
                THEN <<RuleOfThirdsWarning>>
                ELSE <<>>
      ELSE <<>>

\* Line 173: scene_data.get("previousScenes", []).
PreviousScenes(scene) ==
    IF "previousScenes" \in DOMAIN scene THEN scene["previousScenes"] ELSE <<>>

\* ContinuityRequested asking for checkWardrobe as well.
ContinuityRequestedWithWardrobe(scene, r) ==
    /\ r["continuity"].v["checkProps"]
    /\ r["continuity"].v["checkWardrobe"]
    /\ Len(PreviousScenes(scene)) > 0

\* Line 173: the condition of the continuity check.
ContinuityRequested(scene, r) ==
    r["continuity"].v["checkProps"] /\ Len(PreviousScenes(scene)) > 0

\* Extend reading the field without the `in` test: a missing field raises
\* KeyError.
ExtendRequiringField(list, field) ==
    CASE field.t = "list" -> [raised |-> FALSE, list |-> list \o Reported(field.v)]
      [] field.t \in {"noniter", "absent"} -> [raised |-> TRUE, list |-> list]
      [] OTHER -> [raised |-> FALSE, list |-> list]

\* Lines 191-192 and 194-195: `"f" in analysis and analysis["f"]`, then
\* list.extend, which raises TypeError on a value it cannot iterate.
Extend(list, field) ==
    CASE field.t = "list" -> [raised |-> FALSE, list |-> list \o Reported(field.v)]
      [] field.t = "noniter" -> [raised |-> TRUE, list |-> list]
      [] OTHER -> [raised |-> FALSE, list |-> list]

\* Lines 187-198: the try block and its except clause, from the errors and
\* warnings collected so far and what the collaborator did.
ContinuityCheck(errors, warnings, outcome) ==
    IF outcome.kind \in {"raise", "unparseable", "scalar"}
      THEN [errors |-> errors, warnings |-> Append(warnings, GenericWarning)]
    ELSE IF outcome.kind = "array"
      THEN [errors |-> errors, warnings |-> warnings]
    ELSE LET e == Extend(errors, outcome.continuityErrors)
         IN IF e.raised
              THEN [errors |-> e.list, warnings |-> Append(warnings, GenericWarning)]
              ELSE LET w == Extend(warnings, outcome.continuityWarnings)
                   IN IF w.raised
                        THEN [errors |-> e.list, warnings |-> Append(w.list, GenericWarning)]
                        ELSE [errors |-> e.list, warnings |-> w.list]

\* ValidationResult with warnings counting against validity.
ValidationResultCountingWarnings(errors, warnings) ==
    [valid |-> Len(errors) = 0 /\ Len(warnings) = 0, errors |-> errors, warnings |-> warnings]

\* Lines 200-204.
ValidationResult(errors, warnings) ==
    [valid |-> Len(errors) = 0, errors |-> errors, warnings |-> warnings]

\* Number of generate_content calls of one continuity check (line 188: one
\* call, inside no loop).
ContinuityCalls == 1

\* validate_scene_json on `scene` with the rules r, the collaborator doing
\* `outcome` if it is called: the result, the number of collaborator calls,
\* and the scene document as the call leaves it.
ValidateScene(scene, r, outcome) ==
    LET missing == missing_fields(scene)
    IN IF missing # <<>>
         THEN [result |-> MissingResult(missing), calls |-> 0, scene |-> scene]
         ELSE LET errors == TechnicalErrors(scene, r)
                  warnings == CompositionWarnings(scene, r)
              IN IF ContinuityRequested(scene, r)
                   THEN LET c == ContinuityCheck(errors, warnings, outcome)
                        IN [result |-> ValidationResult(c.errors, c.warnings),
                            calls |-> ContinuityCalls, scene |-> scene]
                   ELSE [result |-> ValidationResult(errors, warnings),
                         calls |-> 0, scene |-> scene]

----------------------------------------------------------------------------
(* The wrappers and the report *)

\* Lines 223-227 and 256-260: the result of a load that raised.
LoadErrorResult(text) ==
    [valid |-> FALSE, errors |-> <<Msg(text, <<"str(e)">>)>>, warnings |-> <<>>]

\* Lines 241-245.
NoClientResult ==
    [valid |-> FALSE,
     errors |-> <<Msg("Google Cloud Storage client not initialized", <<>>)>>,
     warnings |-> <<>>]

\* Lines 286 and 292: a bullet line.
Bullet(m) == Msg("- ", <<m.text>> \o m.args)

\* Lines 283-287 and 289-293: a section of the report, left out when empty.
ReportSection(title, messages) ==
    IF messages # <<>>
      THEN <<Msg(title, <<>>)>> \o [i \in DOMAIN messages |-> Bullet(messages[i])]
           \o <<Msg("", <<>>)>>
      ELSE <<>>

\* Lines 274-295: the lines of the report, which "\n".join makes the text.
ReportLines(validation_result) ==
    <<Msg("# Scene Validation Report", <<>>), Msg("", <<>>),
      Msg(IF validation_result.valid THEN "## Scene is valid" ELSE "## Scene is invalid", <<>>),
      Msg("", <<>>)>>
    \o ReportSection("## Errors", validation_result.errors)
    \o ReportSection("## Warnings", validation_result.warnings)

----------------------------------------------------------------------------
(* State machine *)

NoReport == <<>>

\* Before the constructor runs; the constructor's arguments are drawn from
\* `sources`, with or without an API key and a service account.
InitWith(sources) ==
    /\ pc = "new"
    /\ api_key \in BOOLEAN
    /\ service_account_path \in BOOLEAN
    /\ rules_path \in sources
    /\ rules = Absent
    /\ storage_client = FALSE
    /\ op = "idle"
    /\ scene_arg = Absent
    /\ scene_data = Absent
    /\ response = NoResponse
    /\ calls = 0
    /\ result = Absent
    /\ report = NoReport

Init == InitWith(ValidatorRuleSources)

InitLoad == InitWith(RuleSources)

\* SceneValidator.__init__: raises ValueError without an API key, else sets
\* the storage client and loads the rules.
__init__ ==
    /\ pc = "new"
    /\ IF ~api_key
         THEN pc' = "failed" /\ UNCHANGED <<rules, storage_client>>
         ELSE /\ pc' = "ready"
              /\ storage_client' = service_account_path
              /\ rules' = _load_rules(rules_path)
    /\ UNCHANGED <<api_key, service_account_path, rules_path,
                   op, scene_arg, scene_data, response, calls, result, report>>

\* RulesAfterValidation switching the continuity check off once a
\* validation has run.
RulesAfterValidationSwitchingOff(r) ==
    [r EXCEPT !["continuity"] = Dict([@.v EXCEPT !["checkProps"] = FALSE])]

\* self.rules after a validate_scene_json call that found it as r.
RulesAfterValidation(r) == r

\* A validate_scene_json call on `scene`, the collaborator doing `outcome` if
\* it is called, returns.
Validated(scene, outcome) ==
    LET v == ValidateScene(scene, rules, outcome)
    IN /\ op' = "validate_scene_json"
       /\ scene_arg' = Dict(scene)
       /\ scene_data' = Dict(v.scene)
       /\ response' = IF v.calls > 0 THEN outcome ELSE NoResponse
       /\ calls' = v.calls
       /\ result' = v.result
       /\ rules' = RulesAfterValidation(rules)
       /\ report' = NoReport
       /\ UNCHANGED <<pc, api_key, service_account_path, rules_path, storage_client>>

\* A call that returns `r` without validating a scene.
Failed(name, r) ==
    /\ op' = name
    /\ result' = r
    /\ scene_arg' = Absent
    /\ scene_data' = Absent
    /\ response' = NoResponse
    /\ calls' = 0
    /\ report' = NoReport
    /\ UNCHANGED <<pc, api_key, service_account_path, rules_path, rules, storage_client>>

\* What the collaborator may do in a validation of `scene`: something, if
\* the validation calls it.
OutcomesFor(scene) ==
    IF ValidateScene(scene, rules, [kind |-> "raise"]).calls > 0
      THEN Outcomes
      ELSE {NoResponse}

\* The scene documents a file or a blob may hold; Absent: it cannot be
\* opened, fetched or parsed.
Loaded == {Absent} \cup {Dict(s) : s \in Scenes}

validate_scene_json ==
    /\ pc = "ready"
    /\ op = "idle"
    /\ \E scene \in Scenes : \E outcome \in OutcomesFor(scene) : Validated(scene, outcome)

\* validate_scene_file: the file cannot be opened or parsed, or holds a scene,
\* which validate_scene_json validates.
validate_scene_file ==
    /\ pc = "ready"
    /\ op = "idle"
    /\ \E loaded \in Loaded :
         IF loaded = Absent
           THEN Failed("validate_scene_file", LoadErrorResult("Could not load scene file"))
           ELSE \E outcome \in OutcomesFor(loaded.v) : Validated(loaded.v, outcome)

\* validate_scene_from_gcs: no storage client, or as validate_scene_file.
validate_scene_from_gcs ==
    /\ pc = "ready"
    /\ op = "idle"
    /\ IF ~storage_client
         THEN Failed("validate_scene_from_gcs", NoClientResult)
         ELSE \E loaded \in Loaded :
                IF loaded = Absent
                  THEN Failed("validate_scene_from_gcs",
                              LoadErrorResult("Could not load scene from GCS"))
                  ELSE \E outcome \in OutcomesFor(loaded.v) : Validated(loaded.v, outcome)

\* generate_report on the result the last validation returned.
generate_report ==
    /\ pc = "ready"
    /\ op \in {"validate_scene_json", "validate_scene_file", "validate_scene_from_gcs"}
    /\ op' = "generate_report"
    /\ report' = ReportLines(result)
    /\ scene_arg' = Absent
    /\ scene_data' = Absent
    /\ response' = NoResponse
    /\ calls' = 0
    /\ UNCHANGED <<pc, api_key, service_account_path, rules_path, rules, storage_client,
                   result>>

\* The caller is done with what the last call returned.
Return ==
    /\ pc = "ready"
    /\ op # "idle"
    /\ op' = "idle"
    /\ scene_arg' = Absent
    /\ scene_data' = Absent
    /\ response' = NoResponse
    /\ calls' = 0
    /\ result' = Absent
    /\ report' = NoReport
    /\ UNCHANGED <<pc, api_key, service_account_path, rules_path, rules, storage_client>>

Next ==
    \/ __init__
    \/ validate_scene_json
    \/ validate_scene_file
    \/ validate_scene_from_gcs
    \/ generate_report
    \/ Return

Spec == Init /\ [][Next]_vars

\* The constructor alone, on every rules source of RuleSources.
NextLoad == __init__

SpecLoad == InitLoad /\ [][NextLoad]_vars

----------------------------------------------------------------------------
(* Properties *)

\* The frame holds a validate_scene_json call and what it returned.
InValidation == op = "validate_scene_json"

\* The frame holds the ValidationResult some validation method returned.
HasResult == op \in {"validate_scene_json", "validate_scene_file", "validate_scene_from_gcs"}

\* The scene the call in the frame validated.
TheScene == scene_arg.v

Complete == RequiredKeys \subseteq DOMAIN TheScene

\* The positions of the messages with the given text.
Positions(messages, text) == {i \in DOMAIN messages : messages[i].text = text}

\* What the collaborator did in the call of the frame, or any outcome if it
\* was not called.
TheOutcome == IF calls > 0 THEN response ELSE [kind |-> "raise"]

\* C1: every ValidationResult returned by validate_scene_json,
\* validate_scene_file or validate_scene_from_gcs has valid = TRUE exactly
\* when its errors are empty, whatever its warnings.
C1_ValidIffNoErrors ==
    HasResult => (result.valid <=> result.errors = <<>>)

\* A valid result with a warning, after the collaborator raised.
C1_Witness ==
    /\ InValidation
    /\ result.valid
    /\ result.warnings # <<>>
    /\ response.kind = "raise"

\* C2: a scene lacking a required field yields valid = FALSE, exactly one
\* error, which lists all the missing fields, no warning, and no call of the
\* collaborator, whatever else the scene holds.
C2_MissingFieldsOnly ==
    (InValidation /\ ~Complete) =>
        LET missing == RequiredKeys \ DOMAIN TheScene
        IN /\ ~result.valid
           /\ Len(result.errors) = 1
           /\ result.errors[1].text = "Missing required fields"
           /\ {result.errors[1].args[i] : i \in DOMAIN result.errors[1].args} = missing
           /\ Len(result.errors[1].args) = Cardinality(missing)
           /\ result.warnings = <<>>
           /\ calls = 0
           /\ response = NoResponse

\* A scene that lacks two fields and holds a bad resolution, a composition
\* block that breaks the rule of thirds and a previous scene, under rules
\* that enforce all three checks.
C2_Witness ==
    /\ InValidation
    /\ Cardinality(RequiredKeys \ DOMAIN TheScene) = 2
    /\ rules = default_rules
    /\ {"technical", "composition", "previousScenes"} \subseteq DOMAIN TheScene
    /\ "resolution" \in DOMAIN TheScene["technical"]
    /\ TheScene["technical"]["resolution"] = "720x480"
    /\ "ruleOfThirds" \in DOMAIN TheScene["composition"]
    /\ ~TheScene["composition"]["ruleOfThirds"]
    /\ Len(TheScene["previousScenes"]) > 0
    /\ Len(result.errors) = 1

\* The rules file of the constructor holds a partial ruleset: a JSON object
\* whose default sections are mappings.
PartialRuleset ==
    /\ rules_path.kind = "json"
    /\ IsDict(rules_path.doc)
    /\ \A s \in DOMAIN rules_path.doc.v \cap DOMAIN default_rules :
         IsDict(rules_path.doc.v[s])

\* C3: the effective rules built from a partial ruleset R hold every default
\* section; a section of R and of the defaults holds every default key, with
\* R's value for the keys R defines; a section R lacks is the default section;
\* sections and keys of R the defaults lack are kept.
C3_MergeOverDefaults ==
    (pc = "ready" /\ PartialRuleset) =>
        LET R == rules_path.doc.v
        IN /\ DOMAIN default_rules \subseteq DOMAIN rules
           /\ \A s \in DOMAIN default_rules :
                IF s \in DOMAIN R
                  THEN /\ IsDict(rules[s])
                       /\ DOMAIN default_rules[s].v \subseteq DOMAIN rules[s].v
                       /\ DOMAIN R[s].v \subseteq DOMAIN rules[s].v
                       /\ \A k \in DOMAIN R[s].v : rules[s].v[k] = R[s].v[k]
                  ELSE rules[s] = default_rules[s]
           /\ \A s \in DOMAIN R \ DOMAIN default_rules :
                s \in DOMAIN rules /\ rules[s] = R[s]

\* A file that overrides a default key, lacks two sections and holds a
\* section of its own.
C3_Witness ==
    /\ pc = "ready"
    /\ rules_path = RulesFile(RulesDoc(Dict([resolution |-> <<"720x480">>]),
                                       Absent, Absent, Dict([author |-> <<"16:9">>])))
    /\ rules["technical"].v["resolution"] = <<"720x480">>
    /\ rules["technical"].v["frameRate"] = default_rules.technical.v.frameRate

\* The load of the rules file of the constructor fails: it cannot be read or
\* parsed, or it is no JSON object, or one of its default sections is no
\* mapping.
LoadFails ==
    \/ rules_path.kind = "unreadable"
    \/ /\ rules_path.kind = "json"
       /\ \/ ~IsDict(rules_path.doc)
          \/ \E s \in DOMAIN rules_path.doc.v \cap DOMAIN default_rules :
               ~IsDict(rules_path.doc.v[s])

\* C4: without a rules source, and with one whose load fails, also part-way
\* through the merge, the constructor gets the default rules and no error.
C4_DefaultsOnNoneOrFailure ==
    /\ (pc = "ready" /\ (rules_path.kind = "none" \/ LoadFails)) => rules = default_rules
    /\ (pc = "failed") => ~api_key

\* The merge failed at the continuity section, after the technical section
\* of the file had been merged.
C4_Witness ==
    /\ pc = "ready"
    /\ rules_path = RulesFile(RulesDoc(Dict([resolution |-> <<"720x480">>]),
                                       Absent, Scalar, Absent))
    /\ rules = default_rules

\* The number of generic continuity warnings in the result.
GenericCount == Cardinality(Positions(result.warnings, GenericWarning.text))

\* The collaborator raised, its text is no JSON, or its JSON object lacks a
\* field.
ClaimedFailure ==
    \/ response.kind \in {"raise", "unparseable"}
    \/ /\ response.kind = "object"
       /\ \/ response.continuityErrors.t = "absent"
          \/ response.continuityWarnings.t = "absent"

\* C5 as claimed: whenever the continuity check runs and fails, a response
\* that lacks continuityErrors or continuityWarnings included, the result
\* holds exactly one generic warning.
C5_WarningOnAnyFailure ==
    (InValidation /\ calls > 0 /\ ClaimedFailure) => GenericCount = 1

\* The try block of the continuity check raises: the call raises, the text is
\* no JSON, the JSON value supports no `in`, or a field that is present and
\* truthy cannot be iterated.
TryBlockRaises ==
    \/ response.kind \in {"raise", "unparseable", "scalar"}
    \/ /\ response.kind = "object"
       /\ \/ response.continuityErrors.t = "noniter"
          \/ response.continuityWarnings.t = "noniter"

\* C5 as amended: when the continuity check runs, the call returns a result;
\* if the try block raised, the result holds exactly one generic warning, the
\* last of its warnings; if not, a response that lacks a field included, it
\* holds none.
C5_WarningWhenTryBlockRaises ==
    (InValidation /\ calls > 0) =>
        /\ result.valid \in BOOLEAN
        /\ IF TryBlockRaises
             THEN /\ GenericCount = 1
                  /\ result.warnings[Len(result.warnings)] = GenericWarning
             ELSE GenericCount = 0

\* The collaborator's text was no JSON, in a scene that also got the
\* rule-of-thirds warning.
C5_Witness ==
    /\ InValidation
    /\ calls = 1
    /\ response.kind = "unparseable"
    /\ result.warnings = <<RuleOfThirdsWarning, GenericWarning>>

\* C6: a validate_scene_json call calls the collaborator at most once, and
\* exactly when all required fields are present, continuity.checkProps is
\* true and previousScenes is not empty.
C6_CalledOnceWhenRequested ==
    InValidation =>
        /\ calls \in {0, 1}
        /\ calls = 1 <=>
             /\ Complete
             /\ rules["continuity"].v["checkProps"]
             /\ "previousScenes" \in DOMAIN TheScene
             /\ TheScene["previousScenes"] # <<>>
        /\ response # NoResponse <=> calls = 1

\* The collaborator was called under rules with the other three continuity
\* flags off.
C6_Witness ==
    /\ InValidation
    /\ calls = 1
    /\ ~rules["continuity"].v["checkWardrobe"]
    /\ ~rules["continuity"].v["checkLighting"]
    /\ ~rules["continuity"].v["checkTimeOfDay"]

\* The text of the error of a checked technical field.
ErrorText(key) ==
    CASE key = "resolution" -> "Invalid resolution"
      [] key = "frameRate" -> "Invalid frame rate"
      [] key = "colorSpace" -> "Invalid color space"

\* The scene sets the technical field to a value outside the allowed list.
Offending(key) ==
    /\ "technical" \in DOMAIN TheScene
    /\ key \in DOMAIN TheScene["technical"]
    /\ \A i \in DOMAIN rules["technical"].v[key] :
         rules["technical"].v[key][i] # TheScene["technical"][key]

\* The texts of the errors the collaborator may report.
ReportedErrorTexts == {"prop moved", "lamp missing"}

\* C7: in a scene with all required fields, each of resolution, frameRate and
\* colorSpace that is set to a value outside its allowed list gets exactly
\* one error, which holds the value; no other field does, the audio fields
\* included.
C7_TechnicalErrors ==
    (InValidation /\ Complete) =>
        /\ \A key \in {"resolution", "frameRate", "colorSpace"} :
             LET at == Positions(result.errors, ErrorText(key))
             IN IF Offending(key)
                  THEN /\ Cardinality(at) = 1
                       /\ \A i \in at : result.errors[i].args[1] = TheScene["technical"][key]
                  ELSE at = {}
        /\ \A i \in DOMAIN result.errors :
             result.errors[i].text \in
                {"Invalid resolution", "Invalid frame rate", "Invalid color space"}
                \cup ReportedErrorTexts

\* Under the default rules, a technical block with a bad resolution, a good
\* frame rate, no color space and audio fields outside their lists: one error.
C7_Witness ==
    /\ InValidation
    /\ Complete
    /\ rules = default_rules
    /\ "technical" \in DOMAIN TheScene
    /\ DOMAIN TheScene["technical"] =
         {"resolution", "frameRate", "audioChannels", "audioSampleRate"}
    /\ TheScene["technical"]["resolution"] = "720x480"
    /\ TheScene["technical"]["frameRate"] = "24"
    /\ Len(result.errors) = 1
    /\ result.errors[1].args[1] = "720x480"

\* The rules r with a flag set.
WithFlag(r, section, key, value) ==
    [r EXCEPT ![section] = Dict([@.v EXCEPT ![key] = value])]

\* The scene without one of its keys.
Without(scene, key) == [k \in DOMAIN scene \ {key} |-> scene[k]]

\* C8: in a scene with all required fields, the rule-of-thirds warning is
\* given exactly when enforceRuleOfThirds is true and the scene's composition
\* block sets ruleOfThirds to false; the errors are those of the scene
\* without its composition block; enforceHeadroom and enforceLeadingSpace do
\* not change the result.
C8_RuleOfThirdsWarning ==
    (InValidation /\ Complete) =>
        /\ Cardinality(Positions(result.warnings, RuleOfThirdsWarning.text)) =
             IF /\ rules["composition"].v["enforceRuleOfThirds"]
                /\ "composition" \in DOMAIN TheScene
                /\ "ruleOfThirds" \in DOMAIN TheScene["composition"]
                /\ TheScene["composition"]["ruleOfThirds"] = FALSE
               THEN 1 ELSE 0
        /\ Positions(result.errors, RuleOfThirdsWarning.text) = {}
        /\ result.errors =
             ValidateScene(Without(TheScene, "composition"), rules, TheOutcome).result.errors
        /\ \A h \in BOOLEAN, l \in BOOLEAN :
             result = ValidateScene(TheScene,
                                    WithFlag(WithFlag(rules, "composition", "enforceHeadroom", h),
                                             "composition", "enforceLeadingSpace", l),
                                    TheOutcome).result

\* A valid scene with the warning, under rules with enforceHeadroom and
\* enforceLeadingSpace off.
C8_Witness ==
    /\ InValidation
    /\ Complete
    /\ ~rules["composition"].v["enforceHeadroom"]
    /\ ~rules["composition"].v["enforceLeadingSpace"]
    /\ result.valid
    /\ result.warnings = <<RuleOfThirdsWarning>>

\* C9: after construction the rules stay those the constructor loaded,
\* whatever calls ran since; so a validation returns what a newly built
\* validator returns for the same scene and the same collaborator outcome,
\* and it leaves the scene document as it was passed.
C9_RulesAndSceneUnchanged ==
    (pc = "ready") =>
        /\ rules = _load_rules(rules_path)
        /\ storage_client = service_account_path
        /\ InValidation =>
             /\ scene_data = scene_arg
             /\ result = ValidateScene(TheScene, _load_rules(rules_path), TheOutcome).result

\* A report was generated from the invalid result of a validation: two calls
\* ran on an instance built from a rules file, whose rules are still those
\* the constructor loaded.
C9_Witness ==
    /\ pc = "ready"
    /\ op = "generate_report"
    /\ result.errors # <<>>
    /\ rules # default_rules
    /\ rules = _load_rules(rules_path)

\* C10 as claimed: a result with the generic continuity warning holds no
\* error and no warning the collaborator reported, so its errors are those of
\* the technical check; a result with an error or a warning the collaborator
\* reported does not hold the generic warning.
C10_AllOrNothing ==
    (InValidation /\ calls > 0) =>
        LET reportedErrors == {i \in DOMAIN result.errors :
                                 result.errors[i].text \in ReportedErrorTexts}
            reportedWarnings == Positions(result.warnings, "check wardrobe")
        IN /\ GenericCount > 0 =>
                /\ reportedErrors = {}
                /\ reportedWarnings = {}
                /\ result.errors = TechnicalErrors(TheScene, rules)
           /\ (reportedErrors # {} \/ reportedWarnings # {}) => GenericCount = 0

====
